---- MODULE Spec2Model ----
(***************************************************************************)
(* A model of the MIDI input library of src/MIDI.c and src/MIDI.h.         *)
(*                                                                         *)
(* The library owns a circular receive buffer that a UART DMA channel      *)
(* fills.  The HAL calls MIDI_DATA_RX from interrupt context on a          *)
(* half-buffer, a full-buffer or an idle-line event; the application calls *)
(* MIDI_check from its main loop.  MIDI_check feeds the newly valid bytes, *)
(* one by one, to a command assembler and MIDI_parse issues the callbacks. *)
(*                                                                         *)
(* Bytes are naturals in 0..255.  x >> 4 is x \div 16, x & 0xF is x % 16,  *)
(* x & 0x7F is x % 128 and, for a, b < 128, a | (b << 7) is a + 128 * b.   *)
(***************************************************************************)
EXTENDS Integers, Sequences, FiniteSets, TLC

(***************************************************************************)
(* Build parameters.  Both macros are guarded by #ifndef in src/MIDI.c     *)
(* (lines 82-88, defaults 8 and 128) so that a build may override them.    *)
(* The model is checked for a small build, in which a run of data bytes    *)
(* overflows the staging area and the receive buffer wraps within a few    *)
(* bytes.  As in the default build, MIDI_BUFF_SIZE > MIDI_MAX_CMD_LEN >= 3 *)
(* and both are far below the 0xFF "never complete" message length.        *)
(***************************************************************************)
MIDI_MAX_CMD_LEN == 3

MIDI_BUFF_SIZE == 6

\* src/MIDI.h:25
MIDI_CHANNEL_ALL == 255

VARIABLES
    \* ---- the globals of src/MIDI.c, lines 90-102
    MIDI_rx_flag,           \* 1: a transport notification is pending
    MIDI_rx_half,           \* 1 / 2: which half was reported last (never read)
    MIDI_buffer,            \* [0..MIDI_BUFF_SIZE-1 -> byte], filled by DMA
    MIDI_buffer_index,      \* index of the next byte MIDI_check reads
    MIDI_message_length,    \* data bytes the staged status expects
    MIDI_max_valid,         \* stop index for MIDI_check, set by MIDI_DATA_RX
    MIDI_cmd_state,         \* position of the assembler in the command
    MIDI_cmd_stage,         \* [0..MIDI_MAX_CMD_LEN-1 -> byte], staged command
    MIDI_channel,           \* 0..15, or MIDI_CHANNEL_ALL
    \* ---- the transport (UART + circular DMA started at line 191)
    dma_pos,                \* index of the next cell the DMA writes
    line_busy,              \* a byte arrived since the last idle-line event
    \* ---- a call of MIDI_check in progress (lines 199-256)
    pc,                     \* "idle", or the statement the call executes next
    loop_i,                 \* the loop variable i of line 202
    seen_valid,             \* the value of MIDI_max_valid the call read last
    entry_reported,         \* the value of reported when the call began
    \* ---- the argument MIDI_init was called with
    channel_arg,
    \* ---- history, for stating properties only
    stream,                 \* every byte the DMA has received, in order
    reported,               \* number of stream bytes covered by a notification
    fed,                    \* every byte handed to the assembler, in order
    fedpos,                 \* for each fed byte, its index in stream
    calls                   \* every callback invoked, in order

progVars == <<MIDI_rx_flag, MIDI_rx_half, MIDI_buffer, MIDI_buffer_index,
              MIDI_message_length, MIDI_max_valid, MIDI_cmd_state,
              MIDI_cmd_stage, MIDI_channel>>

asmVars == <<MIDI_message_length, MIDI_cmd_state, MIDI_cmd_stage>>

ghostVars == <<stream, reported, fed, fedpos, calls>>

stepVars == <<pc, loop_i, seen_valid, entry_reported>>

vars == <<progVars, dma_pos, line_busy, stepVars, channel_arg, ghostVars>>

Byte == 0..255

\* a mutant of MessageLength: note on (0x9) listed with the one-data-byte
\* commands, so that it is dispatched with what slot 2 held before
MessageLengthNoteShort(new_byte) ==
    LET status_msb == new_byte \div 16
    IN  IF status_msb \in {8, 10, 11, 14} THEN 2
        ELSE IF status_msb \in {9, 12, 13} THEN 1
        ELSE IF new_byte \in {241, 243} THEN 1
        ELSE IF new_byte = 242 THEN 2
        ELSE 255

\* a mutant of MessageLength: pitch bend (0xE) listed with the one-data-byte
\* commands 0xC and 0xD instead of the two-data-byte ones
MessageLengthPitchShort(new_byte) ==
    LET status_msb == new_byte \div 16
    IN  IF status_msb \in {8, 9, 10, 11} THEN 2
        ELSE IF status_msb \in {12, 13, 14} THEN 1
        ELSE IF new_byte \in {241, 243} THEN 1
        ELSE IF new_byte = 242 THEN 2
        ELSE 255

(***************************************************************************)
(* MIDI_check, lines 213-230: the number of data bytes a status byte       *)
(* announces.  0xFF (255) means "never complete".                          *)
(***************************************************************************)
MessageLength(new_byte) ==
    LET status_msb == new_byte \div 16
    IN  IF status_msb \in {8, 9, 10, 11, 14} THEN 2
        ELSE IF status_msb \in {12, 13} THEN 1
        ELSE IF new_byte \in {241, 243} THEN 1
        ELSE IF new_byte = 242 THEN 2
        ELSE 255

\* a mutant of DataByteState: the position wraps one byte earlier
DataByteStateBelowLast(cmd_state) ==
    IF cmd_state < MIDI_MAX_CMD_LEN - 1 THEN cmd_state + 1 ELSE 0

(***************************************************************************)
(* MIDI_check, lines 232-240: the assembler position after a data byte.    *)
(***************************************************************************)
DataByteState(cmd_state) ==
    IF cmd_state < MIDI_MAX_CMD_LEN THEN cmd_state + 1 ELSE 0

(***************************************************************************)
(* The argument MIDI_parse hands to MIDI_pitchBend (line 161).  The        *)
(* expression is an int; the parameter is a uint16_t (src/MIDI.h:37), so   *)
(* the callee receives the value modulo 2^16.                              *)
(***************************************************************************)
PitchBendArg(d1, d2) ==
    (((d1 % 128) + ((d2 % 128) * 128)) - 8192) % 65536

\* a mutant of MIDI_parse_calls: the channel test of line 137 is left out
MIDI_parse_callsAnyChannel(stage, channel) ==
    LET status_msb == stage[0] \div 16
    IN  IF status_msb = 8
        THEN <<[cb |-> "noteOff", args |-> <<stage[1] % 128, stage[2] % 128>>]>>
        ELSE IF status_msb = 9
        THEN IF stage[2] = 0
             THEN <<[cb |-> "noteOff", args |-> <<stage[1] % 128, 0>>]>>
             ELSE <<[cb |-> "noteOn", args |-> <<stage[1] % 128, stage[2] % 128>>]>>
        ELSE IF status_msb = 11
        THEN <<[cb |-> "CC", args |-> <<stage[1], stage[2]>>]>>
        ELSE IF status_msb = 14
        THEN <<[cb |-> "pitchBend", args |-> <<PitchBendArg(stage[1], stage[2])>>]>>
        ELSE <<>>

\* a mutant of MIDI_parse_calls: the velocity test of line 145 is left out
MIDI_parse_callsNoImplicitOff(stage, channel) ==
    LET status_msb == stage[0] \div 16
        status_lsb == stage[0] % 16
    IN  IF (channel = MIDI_CHANNEL_ALL) \/ (status_lsb = channel)
        THEN IF status_msb = 8
             THEN <<[cb |-> "noteOff", args |-> <<stage[1] % 128, stage[2] % 128>>]>>
             ELSE IF status_msb = 9
             THEN <<[cb |-> "noteOn", args |-> <<stage[1] % 128, stage[2] % 128>>]>>
             ELSE IF status_msb = 11
             THEN <<[cb |-> "CC", args |-> <<stage[1], stage[2]>>]>>
             ELSE IF status_msb = 14
             THEN <<[cb |-> "pitchBend", args |-> <<PitchBendArg(stage[1], stage[2])>>]>>
             ELSE <<>>
        ELSE <<>>

(***************************************************************************)
(* MIDI_parse, lines 132-171: the callbacks issued for a staged command    *)
(* (a sequence of at most one call) ...                                    *)
(***************************************************************************)
MIDI_parse_calls(stage, channel) ==
    LET status_msb == stage[0] \div 16
        status_lsb == stage[0] % 16
    IN  IF (channel = MIDI_CHANNEL_ALL) \/ (status_lsb = channel)
        THEN IF status_msb = 8
             THEN <<[cb |-> "noteOff", args |-> <<stage[1] % 128, stage[2] % 128>>]>>
             ELSE IF status_msb = 9
             THEN IF stage[2] = 0
                  THEN <<[cb |-> "noteOff", args |-> <<stage[1] % 128, 0>>]>>
                  ELSE <<[cb |-> "noteOn", args |-> <<stage[1] % 128, stage[2] % 128>>]>>
             ELSE IF status_msb = 11
             THEN <<[cb |-> "CC", args |-> <<stage[1], stage[2]>>]>>
             ELSE IF status_msb = 14
             THEN <<[cb |-> "pitchBend", args |-> <<PitchBendArg(stage[1], stage[2])>>]>>
             ELSE <<>>
        ELSE <<>>

\* a mutant of MIDI_parse_state: the position is reset after every completed
\* command, dispatched or not
MIDI_parse_stateAlwaysReset(stage, channel, cmd_state) == 0

\* a mutant of MIDI_parse_state: the resets of lines 141, 152, 157 and 162
\* are left out
MIDI_parse_stateKept(stage, channel, cmd_state) == cmd_state

(***************************************************************************)
(* ... and the assembler position it leaves (lines 141, 152, 157, 162).    *)
(***************************************************************************)
MIDI_parse_state(stage, channel, cmd_state) ==
    LET status_msb == stage[0] \div 16
        status_lsb == stage[0] % 16
    IN  IF ((channel = MIDI_CHANNEL_ALL) \/ (status_lsb = channel))
           /\ status_msb \in {8, 9, 11, 14}
        THEN 0
        ELSE cmd_state

\* a mutant of AssemblerState: a status byte leaves the position where it is
\* (line 212 left out)
AssemblerStateStatusKept(cmd_state, new_byte) ==
    IF new_byte = 255 THEN 0
    ELSE IF new_byte >= 128 THEN cmd_state
    ELSE DataByteState(cmd_state)

(***************************************************************************)
(* MIDI_check, lines 204-240: the assembler position after new_byte, a     *)
(* system reset (0xFF), another status byte or a data byte.                *)
(***************************************************************************)
AssemblerState(cmd_state, new_byte) ==
    IF new_byte = 255 THEN 0
    ELSE IF new_byte >= 128 THEN 0
    ELSE DataByteState(cmd_state)

(***************************************************************************)
(* MIDI_check, lines 204-231: the expected length after new_byte.          *)
(***************************************************************************)
AssemblerLength(message_length, new_byte) ==
    IF new_byte = 255 THEN 255
    ELSE IF new_byte >= 128 THEN MessageLength(new_byte)
    ELSE message_length

\* a mutant of SystemResetCalls: 0xFF is taken for an ordinary status byte
\* (the test of line 210 placed before the test of line 204)
SystemResetCallsNone(new_byte) == <<>>

(***************************************************************************)
(* MIDI_check, lines 204-209: a system reset byte calls MIDI_systemReset   *)
(* at once.                                                                *)
(***************************************************************************)
SystemResetCalls(new_byte) ==
    IF new_byte = 255 THEN <<[cb |-> "systemReset", args |-> <<>>]>> ELSE <<>>

\* a mutant of StageWrite: the bound test of line 241 is left out, and the
\* store lands in the cell behind the staging area
StageWriteUnguarded(stage, cmd_state, new_byte) ==
    [k \in (DOMAIN stage) \union {cmd_state} |->
        IF k = cmd_state THEN new_byte ELSE stage[k]]

(***************************************************************************)
(* MIDI_check, lines 241-243: the byte is stored in the staging area at    *)
(* the assembler position, unless the position is beyond the area.         *)
(***************************************************************************)
StageWrite(stage, cmd_state, new_byte) ==
    IF cmd_state < MIDI_MAX_CMD_LEN
    THEN [stage EXCEPT ![cmd_state] = new_byte]
    ELSE stage

\* a mutant of ByteStep: 0xFF is answered apart from the assembler, which
\* keeps the expected length and the staged command of before the reset
ByteStepResetApart(d, new_byte, src, channel) ==
    LET reset  == new_byte = 255
        s1     == AssemblerState(d.cmd_state, new_byte)
        len1   == IF reset THEN d.message_length
                  ELSE AssemblerLength(d.message_length, new_byte)
        stage1 == IF reset THEN d.cmd_stage ELSE StageWrite(d.cmd_stage, s1, new_byte)
        done   == ~reset /\ s1 >= len1
        issued == SystemResetCalls(new_byte)
                  \o (IF done THEN MIDI_parse_calls(stage1, channel) ELSE <<>>)
        at     == Len(d.fed) + 1
    IN  [cmd_state      |-> IF done THEN MIDI_parse_state(stage1, channel, s1) ELSE s1,
         message_length |-> len1,
         cmd_stage      |-> stage1,
         fed            |-> Append(d.fed, new_byte),
         fedpos         |-> Append(d.fedpos, src),
         calls          |-> d.calls \o
                            [k \in 1..Len(issued) |->
                                [cb |-> issued[k].cb, args |-> issued[k].args, at |-> at]]]

\* a mutant of ByteStep: the real-time status bytes 0xF8..0xFE are skipped
\* without touching the assembler, so that the command they interrupt goes on
ByteStepSkipRealTime(d, new_byte, src, channel) ==
    LET skip   == new_byte >= 248 /\ new_byte # 255
        s1     == IF skip THEN d.cmd_state ELSE AssemblerState(d.cmd_state, new_byte)
        len1   == IF skip THEN d.message_length
                  ELSE AssemblerLength(d.message_length, new_byte)
        stage1 == IF ~skip THEN StageWrite(d.cmd_stage, s1, new_byte) ELSE d.cmd_stage
        done   == ~skip /\ s1 >= len1
        issued == SystemResetCalls(new_byte)
                  \o (IF done THEN MIDI_parse_calls(stage1, channel) ELSE <<>>)
        at     == Len(d.fed) + 1
    IN  [cmd_state      |-> IF done THEN MIDI_parse_state(stage1, channel, s1) ELSE s1,
         message_length |-> len1,
         cmd_stage      |-> stage1,
         fed            |-> Append(d.fed, new_byte),
         fedpos         |-> Append(d.fedpos, src),
         calls          |-> d.calls \o
                            [k \in 1..Len(issued) |->
                                [cb |-> issued[k].cb, args |-> issued[k].args, at |-> at]]]

(***************************************************************************)
(* One iteration of the loop of MIDI_check, lines 203-248.  d carries the  *)
(* assembler's globals and the history; src is the index in stream of the  *)
(* byte read from MIDI_buffer[i].                                          *)
(***************************************************************************)
ByteStep(d, new_byte, src, channel) ==
    LET s1     == AssemblerState(d.cmd_state, new_byte)
        len1   == AssemblerLength(d.message_length, new_byte)
        stage1 == StageWrite(d.cmd_stage, s1, new_byte)
        done   == s1 >= len1
        issued == SystemResetCalls(new_byte)
                  \o (IF done THEN MIDI_parse_calls(stage1, channel) ELSE <<>>)
        at     == Len(d.fed) + 1
    IN  [cmd_state      |-> IF done THEN MIDI_parse_state(stage1, channel, s1) ELSE s1,
         message_length |-> len1,
         cmd_stage      |-> stage1,
         fed            |-> Append(d.fed, new_byte),
         fedpos         |-> Append(d.fedpos, src),
         calls          |-> d.calls \o
                            [k \in 1..Len(issued) |->
                                [cb |-> issued[k].cb, args |-> issued[k].args, at |-> at]]]

(***************************************************************************)
(* The index in stream of the byte that buffer cell i holds: the DMA is    *)
(* circular, so cell i holds the latest byte j with (j - 1) % size = i     *)
(* (0 when the cell was never written).                                    *)
(***************************************************************************)
Origin(i) ==
    LET js == {j \in 1..Len(stream) : (j - 1) % MIDI_BUFF_SIZE = i}
    IN  IF js = {} THEN 0 ELSE CHOOSE j \in js : \A k \in js : k <= j

(***************************************************************************)
(* The loop of MIDI_check, line 202: for (i = from; i < to; i++).          *)
(***************************************************************************)
RECURSIVE CheckLoop(_, _, _)
CheckLoop(d, i, to) ==
    IF i < to
    THEN CheckLoop(ByteStep(d, MIDI_buffer[i], Origin(i), MIDI_channel), i + 1, to)
    ELSE d

(***************************************************************************)
(* MIDI_check, lines 250-253: where the next call starts reading.          *)
(***************************************************************************)
NextBufferIndex(max_valid) ==
    IF max_valid >= MIDI_BUFF_SIZE - 1 THEN 0 ELSE max_valid

\* a mutant of InitChannel: channel 16 is taken for an invalid argument
InitChannelBelow16(channel) ==
    IF channel > 0 /\ channel < 16 THEN channel - 1 ELSE MIDI_CHANNEL_ALL

(***************************************************************************)
(* MIDI_init, lines 180-192, and the zero-initialised globals.             *)
(***************************************************************************)
InitChannel(channel) ==
    IF (channel > 0) /\ (channel <= 16) THEN channel - 1 ELSE MIDI_CHANNEL_ALL

MIDI_init(channel) ==
    /\ MIDI_rx_flag = 0
    /\ MIDI_rx_half = 0
    /\ MIDI_buffer = [i \in 0..(MIDI_BUFF_SIZE - 1) |-> 0]
    /\ MIDI_buffer_index = 0
    /\ MIDI_message_length = MIDI_BUFF_SIZE
    /\ MIDI_max_valid = 0
    /\ MIDI_cmd_state = 0
    /\ MIDI_cmd_stage = [i \in 0..(MIDI_MAX_CMD_LEN - 1) |-> 0]
    /\ MIDI_channel = InitChannel(channel)
    /\ channel_arg = channel
    /\ dma_pos = 0
    /\ line_busy = FALSE
    /\ pc = "idle"
    /\ loop_i = 0
    /\ seen_valid = 0
    /\ entry_reported = 0
    /\ stream = <<>>
    /\ reported = 0
    /\ fed = <<>>
    /\ fedpos = <<>>
    /\ calls = <<>>

(***************************************************************************)
(* MIDI_DATA_RX, lines 109-127, for the three event types.                 *)
(***************************************************************************)
MIDI_DATA_RX(event, Size) ==
    /\ MIDI_rx_flag' = 1
    /\ MIDI_rx_half' = IF event = "HT" THEN 1
                       ELSE IF event = "TC" THEN 2
                       ELSE MIDI_rx_half
    /\ MIDI_max_valid' = Size % 256

(***************************************************************************)
(* The DMA stores one received byte.  Reaching the middle of the buffer    *)
(* raises the half-transfer event, reaching its end the transfer-complete  *)
(* event (and the circular DMA restarts at cell 0); the HAL then calls     *)
(* MIDI_DATA_RX with the number of bytes in the buffer.                    *)
(***************************************************************************)
DmaReceive(b) ==
    LET pos == dma_pos + 1
    IN  /\ MIDI_buffer' = [MIDI_buffer EXCEPT ![dma_pos] = b]
        /\ stream' = Append(stream, b)
        /\ dma_pos' = pos % MIDI_BUFF_SIZE
        /\ line_busy' = TRUE
        /\ IF pos = MIDI_BUFF_SIZE
           THEN MIDI_DATA_RX("TC", pos) /\ reported' = Len(stream) + 1
           ELSE IF pos = MIDI_BUFF_SIZE \div 2
           THEN MIDI_DATA_RX("HT", pos) /\ reported' = Len(stream) + 1
           ELSE UNCHANGED <<MIDI_rx_flag, MIDI_rx_half, MIDI_max_valid, reported>>
        /\ UNCHANGED <<MIDI_buffer_index, asmVars, MIDI_channel, channel_arg,
                       stepVars, fed, fedpos, calls>>

(***************************************************************************)
(* The line goes idle after a reception: the HAL calls MIDI_DATA_RX with   *)
(* the number of bytes the DMA has stored in this lap of the buffer.  The  *)
(* HAL raises no idle event while that number is 0 (the DMA counter has    *)
(* just been reloaded).                                                    *)
(***************************************************************************)
IdleLine ==
    /\ line_busy
    /\ dma_pos > 0
    /\ MIDI_DATA_RX("IDLE", dma_pos)
    /\ reported' = Len(stream)
    /\ line_busy' = FALSE
    /\ UNCHANGED <<MIDI_buffer, MIDI_buffer_index, asmVars, MIDI_channel,
                   channel_arg, stepVars, dma_pos, stream, fed, fedpos, calls>>

\* a mutant of MIDI_check: the test of MIDI_rx_flag of line 200 is left out
MIDI_checkUnguarded ==
    /\ pc = "idle"
    /\ LET d == CheckLoop([cmd_state      |-> MIDI_cmd_state,
                           message_length |-> MIDI_message_length,
                           cmd_stage      |-> MIDI_cmd_stage,
                           fed            |-> fed,
                           fedpos         |-> fedpos,
                           calls          |-> calls],
                          MIDI_buffer_index, MIDI_max_valid)
       IN  /\ MIDI_cmd_state' = d.cmd_state
           /\ MIDI_message_length' = d.message_length
           /\ MIDI_cmd_stage' = d.cmd_stage
           /\ fed' = d.fed
           /\ fedpos' = d.fedpos
           /\ calls' = d.calls
           /\ MIDI_buffer_index' = NextBufferIndex(MIDI_max_valid)
           /\ MIDI_rx_flag' = 0
           /\ UNCHANGED <<MIDI_rx_half, MIDI_buffer, MIDI_max_valid,
                          MIDI_channel, channel_arg, stepVars,
                          dma_pos, line_busy, stream, reported>>

(***************************************************************************)
(* MIDI_check, lines 199-256, as one step of the main loop: a call that no *)
(* interrupt preempts.                                                     *)
(***************************************************************************)
MIDI_check ==
    /\ pc = "idle"
    /\ IF MIDI_rx_flag = 1
       THEN LET d == CheckLoop([cmd_state      |-> MIDI_cmd_state,
                                message_length |-> MIDI_message_length,
                                cmd_stage      |-> MIDI_cmd_stage,
                                fed            |-> fed,
                                fedpos         |-> fedpos,
                                calls          |-> calls],
                            MIDI_buffer_index, MIDI_max_valid)
            IN  /\ MIDI_cmd_state' = d.cmd_state
                /\ MIDI_message_length' = d.message_length
                /\ MIDI_cmd_stage' = d.cmd_stage
                /\ fed' = d.fed
                /\ fedpos' = d.fedpos
                /\ calls' = d.calls
                /\ MIDI_buffer_index' = NextBufferIndex(MIDI_max_valid)
                /\ MIDI_rx_flag' = 0
                /\ UNCHANGED <<MIDI_rx_half, MIDI_buffer, MIDI_max_valid,
                               MIDI_channel, channel_arg, stepVars,
                               dma_pos, line_busy, stream, reported>>
       ELSE UNCHANGED vars

(***************************************************************************)
(* The MIDI sender: the line delivers any byte of the set B, until max     *)
(* bytes have been received.                                               *)
(***************************************************************************)
Sender(B, max) ==
    \E b \in B : Len(stream) < max /\ DmaReceive(b)

(***************************************************************************)
(* Timely polling: the main loop calls MIDI_check after every transport    *)
(* notification, before the transport raises the next one.                 *)
(***************************************************************************)
Notifies(pos) == pos \in {MIDI_BUFF_SIZE \div 2, MIDI_BUFF_SIZE}

PolledSender(B, max) ==
    \E b \in B : /\ Len(stream) < max
                 /\ (Notifies(dma_pos + 1) => MIDI_rx_flag = 0)
                 /\ DmaReceive(b)

PolledIdle == MIDI_rx_flag = 0 /\ IdleLine

(***************************************************************************)
(* Bounds: the number of bytes the line delivers in each specification.    *)
(***************************************************************************)
MaxStream == 4

MaxRunning == 6

MaxUnsupported == 6

MaxResync == 7

MaxPolled == 8
\* the longest stream after each argument of MIDI_init
MaxInit == 3
\* the longest stream received around preempted calls of MIDI_check
MaxIsr == 5
\* the longest stream received with notifications at any time
MaxFree == 7
\* the longest stream around a system reset
MaxReset == 8
\* the longest stream of commands of every length
MaxOther == 4
\* the longest stream of commands that leave bytes staged
MaxStale == 6

(***************************************************************************)
(* Spec: channel voice commands on two channels and the system reset, with *)
(* the decoder listening to channel 1, to channel 2 or to all channels.    *)
(* 0x80 note off, 0x90 / 0x91 note on, 0xB0 control change, 0xE0 pitch     *)
(* bend, 0xFF system reset; data bytes 0x00, 0x40, 0x7F.  Notifications    *)
(* and polls interleave freely.                                            *)
(***************************************************************************)
VoiceBytes == {128, 144, 145, 176, 224, 255, 0, 64, 127}

Init == \E channel \in {1, 2, MIDI_CHANNEL_ALL} : MIDI_init(channel)

Next == Sender(VoiceBytes, MaxStream) \/ IdleLine \/ MIDI_check

Spec == Init /\ [][Next]_vars

(***************************************************************************)
(* Vocabulary of the properties.                                           *)
(***************************************************************************)
IsData(b) == b < 128

IsStatus(b) == b >= 128

\* a status byte of a command the library dispatches
IsVoice(b) == (b \div 16) \in {8, 9, 11, 14}

\* the configured channel accepts the status byte
Accepted(b) == MIDI_channel = MIDI_CHANNEL_ALL \/ (b % 16) = MIDI_channel

\* the callbacks invoked while the i-th fed byte was processed
CallsAt(i) == SelectSeq(calls, LAMBDA c : c.at = i)

AllData(from, to) == \A k \in from..to : IsData(fed[k])

\* positions where an accepted voice status byte is followed by two data bytes
CommandAt(i) ==
    /\ i + 2 <= Len(fed)
    /\ IsVoice(fed[i]) /\ Accepted(fed[i])
    /\ IsData(fed[i + 1]) /\ IsData(fed[i + 2])

\* call c is the callback of the command status, d1, d2, carrying d1 and d2
Matches(c, status, d1, d2) ==
    LET msb == status \div 16
    IN  CASE msb = 8  -> c.cb = "noteOff" /\ c.args = <<d1, d2>>
          [] msb = 9  -> IF d2 = 0
                         THEN c.cb = "noteOff" /\ c.args = <<d1, 0>>
                         ELSE c.cb = "noteOn" /\ c.args = <<d1, d2>>
          [] msb = 11 -> c.cb = "CC" /\ c.args = <<d1, d2>>
          [] msb = 14 -> /\ c.cb = "pitchBend"
                         /\ Len(c.args) = 1
                         /\ (c.args[1] + 8192) % 16384 = d1 + (128 * d2)
          [] OTHER    -> FALSE

(***************************************************************************)
(* C1: an accepted status byte of nibble 0x8, 0x9, 0xB or 0xE followed by  *)
(* exactly two data bytes invokes exactly one callback, of the matching    *)
(* kind and carrying the two data bytes, when the second data byte is      *)
(* processed, and none at the status byte or at the first data byte.       *)
(***************************************************************************)
C1_OneCallPerCommand ==
    \A i \in 1..Len(fed) :
        CommandAt(i) =>
            /\ CallsAt(i) = <<>>
            /\ CallsAt(i + 1) = <<>>
            /\ Len(CallsAt(i + 2)) = 1
            /\ Matches(CallsAt(i + 2)[1], fed[i], fed[i + 1], fed[i + 2])

\* a pitch bend command on channel 2 has been dispatched by a decoder
\* listening to channel 2 only, after some other byte
C1_Witness ==
    \E i \in 2..Len(fed) :
        /\ CommandAt(i)
        /\ fed[i] = 145
        /\ MIDI_channel = 1
        /\ Len(CallsAt(i + 2)) = 1

(***************************************************************************)
(* SpecRunning: one note-on status byte and runs of data bytes, for        *)
(* running status: 0x90; data bytes 0x00, 0x40, 0x41, 0x7F.  The decoder   *)
(* listens to channel 1.                                                   *)
(***************************************************************************)
RunningBytes == {144, 0, 64, 65, 127}

InitRunning == MIDI_init(1)

NextRunning == Sender(RunningBytes, MaxRunning) \/ IdleLine \/ MIDI_check

SpecRunning == InitRunning /\ [][NextRunning]_vars

(***************************************************************************)
(* C2: running status.  After an accepted status byte of nibble 0x8, 0x9,  *)
(* 0xB or 0xE, every following pair of data bytes, as long as no status    *)
(* byte intervenes, invokes exactly one callback, decoded with that status *)
(* byte, at the second byte of the pair and none at the first.             *)
(***************************************************************************)
C2_RunningStatus ==
    \A i \in 1..Len(fed) :
        (IsVoice(fed[i]) /\ Accepted(fed[i])) =>
            \A n \in 1..Len(fed) :
                (i + (2 * n) <= Len(fed) /\ AllData(i + 1, i + (2 * n))) =>
                    /\ CallsAt(i + (2 * n) - 1) = <<>>
                    /\ Len(CallsAt(i + (2 * n))) = 1
                    /\ Matches(CallsAt(i + (2 * n))[1],
                               fed[i], fed[i + (2 * n) - 1], fed[i + (2 * n)])

\* 0x90 0x40 0x7F 0x41 0x00 has produced NoteOn(0x40, 0x7F), NoteOff(0x41, 0)
C2_Witness ==
    /\ fed = <<144, 64, 127, 65, 0>>
    /\ calls = << [cb |-> "noteOn", args |-> <<64, 127>>, at |-> 3],
                  [cb |-> "noteOff", args |-> <<65, 0>>, at |-> 5] >>

\* the most recent status byte among the first i fed bytes (-1: none)
LastStatus(i) ==
    LET ks == {k \in 1..i : IsStatus(fed[k])}
    IN  IF ks = {} THEN -1 ELSE fed[CHOOSE k \in ks : \A m \in ks : m <= k]

(***************************************************************************)
(* C3: channel filtering.  A decoder initialised with a channel in 1..16   *)
(* never invokes noteOn, noteOff, CC or pitchBend for a command whose      *)
(* status byte has a low nibble other than channel - 1; a decoder          *)
(* listening to all channels dispatches the commands of every channel.     *)
(***************************************************************************)
C3_ChannelFilter ==
    /\ MIDI_channel # MIDI_CHANNEL_ALL =>
           \A k \in 1..Len(calls) :
               calls[k].cb # "systemReset" =>
                   /\ LastStatus(calls[k].at) >= 128
                   /\ LastStatus(calls[k].at) % 16 = MIDI_channel
    /\ MIDI_channel = MIDI_CHANNEL_ALL =>
           \A i \in 1..Len(fed) :
               (/\ i + 2 <= Len(fed)
                /\ IsVoice(fed[i]) /\ IsData(fed[i + 1]) /\ IsData(fed[i + 2])) =>
                   /\ Len(CallsAt(i + 2)) = 1
                   /\ Matches(CallsAt(i + 2)[1], fed[i], fed[i + 1], fed[i + 2])

\* listening to channel 1, a complete note-on of channel 2 was fed and
\* nothing was invoked
C3_Witness ==
    /\ MIDI_channel = 0
    /\ \E i \in 1..Len(fed) :
           /\ i + 2 <= Len(fed)
           /\ fed[i] = 145 /\ IsData(fed[i + 1]) /\ IsData(fed[i + 2])
           /\ calls = <<>>

(***************************************************************************)
(* C4: system reset.  Whatever the channel and the assembler position, a   *)
(* 0xFF byte invokes MIDI_systemReset exactly once, and nothing else, when *)
(* it is processed; the command it interrupts is never dispatched: the     *)
(* data bytes that follow it invoke nothing.                               *)
(***************************************************************************)
C4_SystemReset ==
    \A i \in 1..Len(fed) :
        fed[i] = 255 =>
            /\ CallsAt(i) = << [cb |-> "systemReset", args |-> <<>>, at |-> i] >>
            /\ \A j \in (i + 1)..Len(fed) :
                   AllData(i + 1, j) => CallsAt(j) = <<>>

\* 0xFF arrived after an accepted status byte and one data byte, and a
\* data byte followed it
C4_Witness ==
    \E i \in 3..Len(fed) :
        /\ fed[i] = 255
        /\ IsVoice(fed[i - 2]) /\ Accepted(fed[i - 2]) /\ IsData(fed[i - 1])
        /\ i + 1 <= Len(fed) /\ IsData(fed[i + 1])
        /\ Len(calls) = 1

(***************************************************************************)
(* C5: pitch bend centering.  A completed pitch bend command with data     *)
(* bytes d1, d2 delivers ((d1 & 0x7F) | ((d2 & 0x7F) << 7)) - 8192 to the  *)
(* pitchBend callback, a signed value in -8192..8191.                      *)
(***************************************************************************)
C5_PitchBendCentered ==
    \A i \in 1..Len(fed) :
        (CommandAt(i) /\ (fed[i] \div 16) = 14) =>
            /\ Len(CallsAt(i + 2)) = 1
            /\ CallsAt(i + 2)[1].cb = "pitchBend"
            /\ CallsAt(i + 2)[1].args =
                   << ((fed[i + 1] % 128) + ((fed[i + 2] % 128) * 128)) - 8192 >>
            /\ CallsAt(i + 2)[1].args[1] \in (-8192)..8191

(***************************************************************************)
(* C6: implicit note-off.  A completed note-on command on an accepted      *)
(* channel invokes noteOff(note, 0) and not noteOn when its second data    *)
(* byte is 0, and noteOn(note, velocity) and not noteOff otherwise.        *)
(***************************************************************************)
C6_ImplicitNoteOff ==
    \A i \in 1..Len(fed) :
        (CommandAt(i) /\ (fed[i] \div 16) = 9) =>
            CallsAt(i + 2) =
                IF fed[i + 2] = 0
                THEN << [cb |-> "noteOff", args |-> <<fed[i + 1], 0>>, at |-> i + 2] >>
                ELSE << [cb |-> "noteOn", args |-> <<fed[i + 1], fed[i + 2]>>, at |-> i + 2] >>

\* a note-on with velocity 0 has been dispatched as a note-off
C6_Witness ==
    \E i \in 1..Len(fed) :
        /\ CommandAt(i)
        /\ (fed[i] \div 16) = 9
        /\ fed[i + 2] = 0
        /\ fed[i + 1] # 0
        /\ Len(CallsAt(i + 2)) = 1
        /\ CallsAt(i + 2)[1].cb = "noteOff"

(***************************************************************************)
(* SpecPolled: the main loop polls after every notification, before the    *)
(* next one; the stream is longer than the buffer, so that the DMA wraps.  *)
(* 0x90 note on; data bytes 0x00, 0x40.                                    *)
(***************************************************************************)
PolledBytes == {144, 0, 64}

InitPolled == MIDI_init(MIDI_CHANNEL_ALL)

NextPolled == PolledSender(PolledBytes, MaxPolled) \/ PolledIdle \/ MIDI_check

SpecPolled == InitPolled /\ [][NextPolled]_vars

(***************************************************************************)
(* C7: every byte the transport reports valid is fed to the assembler      *)
(* exactly once and in order: the k-th byte fed is the k-th byte received, *)
(* and once MIDI_check has answered a notification every reported byte has *)
(* been fed.                                                               *)
(***************************************************************************)
C7_FedOnceInOrder ==
    /\ \A k \in 1..Len(fedpos) : fedpos[k] = k
    /\ MIDI_rx_flag = 0 => Len(fedpos) = reported

(***************************************************************************)
(* A decoder initialised like this one that is handed the bytes of a       *)
(* sequence in a single pass of the loop of MIDI_check (lines 202-249).    *)
(***************************************************************************)
Fresh ==
    [cmd_state      |-> 0,
     message_length |-> MIDI_BUFF_SIZE,
     cmd_stage      |-> [i \in 0..(MIDI_MAX_CMD_LEN - 1) |-> 0],
     fed            |-> <<>>,
     fedpos         |-> <<>>,
     calls          |-> <<>>]

RECURSIVE FeedAll(_, _, _)
FeedAll(d, bytes, k) ==
    IF k <= Len(bytes)
    THEN FeedAll(ByteStep(d, bytes[k], k, MIDI_channel), bytes, k + 1)
    ELSE d

\* the callbacks of a history, without the positions
Invocations(cs) == [k \in 1..Len(cs) |-> [cb |-> cs[k].cb, args |-> cs[k].args]]

(***************************************************************************)
(* C8: chunk-granularity independence.  Once every received byte has been  *)
(* reported and polled, the callbacks invoked are those of the whole       *)
(* sequence decoded in one pass, however the transport split the sequence  *)
(* into notifications.                                                     *)
(***************************************************************************)
C8_ChunkIndependent ==
    (MIDI_rx_flag = 0 /\ reported = Len(stream)) =>
        Invocations(calls) = Invocations(FeedAll(Fresh, stream, 1).calls)

(***************************************************************************)
(* SpecUnsupported: status bytes the library does not support, among a     *)
(* supported one: 0xF0 SysEx start, 0xF8 timing clock, 0x90 note on; data  *)
(* bytes 0x00, 0x40.  The decoder listens to all channels.                 *)
(***************************************************************************)
UnsupportedBytes == {240, 248, 144, 0, 64}

InitUnsupported == MIDI_init(MIDI_CHANNEL_ALL)

NextUnsupported ==
    Sender(UnsupportedBytes, MaxUnsupported) \/ IdleLine \/ MIDI_check

SpecUnsupported == InitUnsupported /\ [][NextUnsupported]_vars

\* 0xF0, or a status byte from 0xF4 on that is not the system reset
IsUnsupported(b) == b = 240 \/ (b >= 244 /\ b # 255)

(***************************************************************************)
(* C9: an unsupported status byte (0xF0, or 0xF4..0xFE) followed by any    *)
(* number of data bytes invokes no callback, neither at the status byte    *)
(* nor at any of the data bytes, also when there are more than             *)
(* MIDI_MAX_CMD_LEN of them.                                               *)
(***************************************************************************)
C9_UnsupportedSilent ==
    \A i \in 1..Len(fed) :
        IsUnsupported(fed[i]) =>
            \A j \in i..Len(fed) :
                AllData(i + 1, j) => CallsAt(j) = <<>>

\* an unsupported status byte cut a note-on short and more than
\* MIDI_MAX_CMD_LEN data bytes followed it
C9_Witness ==
    \E i \in 2..Len(fed) :
        /\ IsVoice(fed[i - 1]) /\ Accepted(fed[i - 1])
        /\ IsUnsupported(fed[i])
        /\ Len(fed) - i > MIDI_MAX_CMD_LEN
        /\ AllData(i + 1, Len(fed))
        /\ calls = <<>>

(***************************************************************************)
(* SpecResync: what may precede a command: 0xF0 SysEx start (unsupported), *)
(* 0x91 note on of a channel the decoder does not listen to, 0x90 note on  *)
(* of its channel, data byte 0x40, in any order and number.  The           *)
(* main loop polls after every notification; the notifications fall        *)
(* anywhere in the stream.                                                 *)
(***************************************************************************)
ResyncBytes == {240, 145, 144, 64}

InitResync == MIDI_init(1)

NextResync == PolledSender(ResyncBytes, MaxResync) \/ PolledIdle \/ MIDI_check

SpecResync == InitResync /\ [][NextResync]_vars

(***************************************************************************)
(* C10: resynchronisation.  Whatever was fed before, an accepted status    *)
(* byte of nibble 0x8, 0x9, 0xB or 0xE followed by two data bytes invokes  *)
(* exactly the one callback that the same three bytes invoke on a freshly  *)
(* initialised decoder, at the second data byte, and nothing before it.    *)
(***************************************************************************)
C10_Resynchronises ==
    \A i \in 1..Len(fed) :
        CommandAt(i) =>
            /\ CallsAt(i) = <<>>
            /\ CallsAt(i + 1) = <<>>
            /\ Len(CallsAt(i + 2)) = 1
            /\ Invocations(CallsAt(i + 2)) =
                   Invocations(FeedAll(Fresh, <<fed[i], fed[i + 1], fed[i + 2]>>, 1).calls)

\* a command was dispatched after a run of data bytes that overflowed the
\* staging area and left a data byte in its slot 0
C10_Witness ==
    \E i \in 1..Len(fed) :
        /\ i > MIDI_MAX_CMD_LEN + 1
        /\ AllData(1, i - 1)
        /\ CommandAt(i)
        /\ MIDI_cmd_stage[0] = fed[i]
        /\ Len(CallsAt(i + 2)) = 1

(***************************************************************************)
(* C11: MIDI_check without pending data.  A call of MIDI_check that finds  *)
(* MIDI_rx_flag = 0 invokes no callback, feeds no byte, and leaves the     *)
(* consumed index, the assembler position, the expected length, the        *)
(* staging area and the channel as they were.                              *)
(***************************************************************************)
C11_NoPendingNoEffect ==
    [][(MIDI_rx_flag = 0 /\ MIDI_check) =>
           UNCHANGED <<calls, fed, MIDI_buffer_index, MIDI_cmd_state,
                       MIDI_message_length, MIDI_cmd_stage, MIDI_channel>>]_vars

\* MIDI_check is called with the flag clear while the buffer holds bytes
\* between the consumed index and the valid index, after a full lap was fed
C11_Witness ==
    /\ MIDI_rx_flag = 0
    /\ MIDI_buffer_index < MIDI_max_valid
    /\ Len(fed) >= MIDI_BUFF_SIZE
    /\ ENABLED MIDI_check

(***************************************************************************)
(* MIDI_init with every value of its uint8_t channel argument, followed by *)
(* a short stream on the first and on the last channel.                    *)
(***************************************************************************)
InitBytes == {144, 159, 64}

InitAny == \E channel \in Byte : MIDI_init(channel)

NextAny == Sender(InitBytes, MaxInit) \/ IdleLine \/ MIDI_check

SpecAny == InitAny /\ [][NextAny]_vars

(***************************************************************************)
(* C12: the channel argument of MIDI_init.  An argument of 1..16 selects   *)
(* the zero-based channel argument - 1; every other value, 0 and 17..255,  *)
(* selects all channels; and the selection stays for the run.              *)
(***************************************************************************)
C12_InitChannel ==
    IF channel_arg \in 1..16
    THEN MIDI_channel = channel_arg - 1
    ELSE MIDI_channel = MIDI_CHANNEL_ALL

\* after MIDI_init(17) a note on channel 16 was dispatched, as on all channels
C12_Witness ==
    /\ channel_arg = 17
    /\ MIDI_channel = MIDI_CHANNEL_ALL
    /\ \E k \in 1..Len(calls) : fed[calls[k].at - 2] = 159

(***************************************************************************)
(* MIDI_check, lines 199-256, statement by statement, so that the receive  *)
(* interrupt can run MIDI_DATA_RX between any two of them.  MIDI_max_valid *)
(* is an ordinary global that the interrupt writes while the loop reads    *)
(* it: a build may load it from memory at every read, or reuse the value   *)
(* it loaded before, except on entry and after a call of a callback, which *)
(* force a load.                                                           *)
(***************************************************************************)
\* line 200: the test of MIDI_rx_flag, and the initialisation of i
CheckEnter ==
    /\ pc = "idle"
    /\ IF MIDI_rx_flag = 1
       THEN /\ pc' = "test_mem"
            /\ loop_i' = MIDI_buffer_index
            /\ entry_reported' = reported
            /\ UNCHANGED <<progVars, dma_pos, line_busy, seen_valid,
                           channel_arg, ghostVars>>
       ELSE UNCHANGED vars

\* lines 202-249: one test of i < MIDI_max_valid that read the value v,
\* and the body of the loop when the test succeeds
LoopStep(v) ==
    LET d == ByteStep([cmd_state      |-> MIDI_cmd_state,
                       message_length |-> MIDI_message_length,
                       cmd_stage      |-> MIDI_cmd_stage,
                       fed            |-> fed,
                       fedpos         |-> fedpos,
                       calls          |-> calls],
                      MIDI_buffer[loop_i], Origin(loop_i), MIDI_channel)
    IN  /\ seen_valid' = v
        /\ IF loop_i < v
           THEN /\ MIDI_cmd_state' = d.cmd_state
                /\ MIDI_message_length' = d.message_length
                /\ MIDI_cmd_stage' = d.cmd_stage
                /\ fed' = d.fed
                /\ fedpos' = d.fedpos
                /\ calls' = d.calls
                /\ loop_i' = loop_i + 1
                /\ pc' = IF d.calls = calls THEN "test" ELSE "test_mem"
           ELSE /\ pc' = "index"
                /\ UNCHANGED <<asmVars, fed, fedpos, calls, loop_i>>
        /\ UNCHANGED <<MIDI_rx_flag, MIDI_rx_half, MIDI_buffer, MIDI_buffer_index,
                       MIDI_max_valid, MIDI_channel, channel_arg, dma_pos,
                       line_busy, entry_reported, stream, reported>>

CheckTestMem == pc = "test_mem" /\ LoopStep(MIDI_max_valid)

CheckTest == pc = "test" /\ \E v \in {MIDI_max_valid, seen_valid} : LoopStep(v)

\* lines 250-253: MIDI_buffer_index = MIDI_max_valid, and its wrap
CheckIndex ==
    /\ pc = "index"
    /\ \E v \in {MIDI_max_valid, seen_valid} :
           /\ MIDI_buffer_index' = NextBufferIndex(v)
           /\ seen_valid' = v
    /\ pc' = "flag"
    /\ UNCHANGED <<MIDI_rx_flag, MIDI_rx_half, MIDI_buffer, MIDI_max_valid,
                   asmVars, MIDI_channel, channel_arg, dma_pos, line_busy,
                   loop_i, entry_reported, ghostVars>>

\* line 254: MIDI_rx_flag = 0
CheckFlag ==
    /\ pc = "flag"
    /\ MIDI_rx_flag' = 0
    /\ pc' = "idle"
    /\ UNCHANGED <<MIDI_rx_half, MIDI_buffer, MIDI_buffer_index, MIDI_max_valid,
                   asmVars, MIDI_channel, channel_arg, dma_pos, line_busy,
                   loop_i, seen_valid, entry_reported, ghostVars>>

(***************************************************************************)
(* The transport around a preempted call: outside a call of MIDI_check the *)
(* polling is timely, and while a call runs the interrupt delivers at most *)
(* one notification.                                                       *)
(***************************************************************************)
MayNotify ==
    IF pc = "idle" THEN MIDI_rx_flag = 0 ELSE reported = entry_reported

IsrSender(B, max) ==
    \E b \in B : /\ Len(stream) < max
                 /\ (Notifies(dma_pos + 1) => MayNotify)
                 /\ DmaReceive(b)

IsrIdle == MayNotify /\ IdleLine

IsrBytes == {144, 64}

InitIsr == MIDI_init(MIDI_CHANNEL_ALL)

NextIsr ==
    \/ IsrSender(IsrBytes, MaxIsr)
    \/ IsrIdle
    \/ CheckEnter
    \/ CheckTestMem
    \/ CheckTest
    \/ CheckIndex
    \/ CheckFlag

SpecIsr == InitIsr /\ [][NextIsr]_vars

(***************************************************************************)
(* C13: a notification during a running call of MIDI_check loses no data.  *)
(* Whenever no call is running and the pending-data flag is clear, every   *)
(* byte the transport has reported valid has been fed to the assembler.    *)
(***************************************************************************)
C13_NoLossWhenPreempted ==
    (pc = "idle" /\ MIDI_rx_flag = 0) =>
        \A j \in 1..reported : \E k \in 1..Len(fedpos) : fedpos[k] = j

(***************************************************************************)
(* Streams longer than the receive buffer, with notifications and calls of *)
(* MIDI_check in any order: several notifications may precede one call.    *)
(***************************************************************************)
FreeBytes == {144, 64}

InitFree == MIDI_init(MIDI_CHANNEL_ALL)

NextFree == Sender(FreeBytes, MaxFree) \/ IdleLine \/ MIDI_check

SpecFree == InitFree /\ [][NextFree]_vars

(***************************************************************************)
(* C14: the cursors of the receive buffer.  In every reachable state the   *)
(* consumed index is at most the valid index, and the valid index is at    *)
(* most the size of the buffer.                                            *)
(***************************************************************************)
C14_IndexOrder ==
    /\ MIDI_buffer_index <= MIDI_max_valid
    /\ MIDI_max_valid <= MIDI_BUFF_SIZE

(***************************************************************************)
(* Streams of a note-on status byte, 0xFF and a data byte, long enough for *)
(* the data bytes after a reset to overflow the staging area.              *)
(***************************************************************************)
ResetBytes == {144, 255, 64}

InitReset == MIDI_init(MIDI_CHANNEL_ALL)

NextReset == PolledSender(ResetBytes, MaxReset) \/ PolledIdle \/ MIDI_check

SpecReset == InitReset /\ [][NextReset]_vars

(***************************************************************************)
(* C15: silence after a reset.  No callback other than MIDI_systemReset is *)
(* invoked while 0xFF is the most recent status byte of the stream: the    *)
(* data bytes after a reset produce no event until a new status byte       *)
(* arrives, however many they are and whatever was staged before.          *)
(***************************************************************************)
C15_SilentAfterReset ==
    \A k \in 1..Len(calls) :
        calls[k].cb # "systemReset" => LastStatus(calls[k].at) # 255

\* a note-on was dispatched and stays staged, 0xFF followed it, and the data
\* bytes after the reset wrapped the assembler position without any event
C15_Witness ==
    \E i \in 4..Len(fed) :
        /\ fed[i] = 255
        /\ CommandAt(i - 3)
        /\ Len(CallsAt(i - 1)) = 1
        /\ Len(fed) >= i + MIDI_MAX_CMD_LEN + 1
        /\ AllData(i + 1, Len(fed))
        /\ \A j \in (i + 1)..Len(fed) : CallsAt(j) = <<>>

(***************************************************************************)
(* MIDI_parse, lines 132-171: the slots of the staging area it reads.      *)
(* Slot 0 is read for the two nibbles of the status; slots 1 and 2 are     *)
(* read when the channel passes and the high nibble is 0x8, 0x9, 0xB or    *)
(* 0xE.                                                                    *)
(***************************************************************************)
ParseReadIndices(stage, channel) ==
    LET status_msb == stage[0] \div 16
        status_lsb == stage[0] % 16
    IN  IF ((channel = MIDI_CHANNEL_ALL) \/ (status_lsb = channel))
           /\ status_msb \in {8, 9, 11, 14}
        THEN {0, 1, 2}
        ELSE {0}

(***************************************************************************)
(* C16: the bounds of the staging area.  MIDI_cmd_stage is never written   *)
(* outside its MIDI_MAX_CMD_LEN slots, MIDI_parse reads none but these,    *)
(* and a byte that arrives at position MIDI_MAX_CMD_LEN is dropped: the    *)
(* staging area is what it was before that byte.                           *)
(***************************************************************************)
C16_StagingBounds ==
    /\ DOMAIN MIDI_cmd_stage = 0..(MIDI_MAX_CMD_LEN - 1)
    /\ ParseReadIndices(MIDI_cmd_stage, MIDI_channel) \subseteq 0..(MIDI_MAX_CMD_LEN - 1)
    /\ (fed # <<>> /\ MIDI_cmd_state >= MIDI_MAX_CMD_LEN) =>
           MIDI_cmd_stage =
               FeedAll(Fresh, SubSeq(fed, 1, Len(fed) - 1), 1).cmd_stage

\* after a status byte that dispatches nothing, more data bytes than the
\* staging area has slots were fed, and the last one found no slot
C16_Witness ==
    /\ MIDI_cmd_state = MIDI_MAX_CMD_LEN
    /\ Len(fed) > MIDI_MAX_CMD_LEN
    /\ IsStatus(fed[Len(fed) - MIDI_MAX_CMD_LEN])
    /\ AllData(Len(fed) - MIDI_MAX_CMD_LEN + 1, Len(fed))
    /\ MIDI_cmd_stage[0] = fed[Len(fed) - MIDI_MAX_CMD_LEN]

\* the assembler position before the last byte fed
PreviousState == FeedAll(Fresh, SubSeq(fed, 1, Len(fed) - 1), 1).cmd_state

\* the last byte fed was a data byte that dispatched nothing, so that the
\* assembler position is the one lines 232-240 gave it
AfterPlainDataByte ==
    /\ fed # <<>>
    /\ IsData(fed[Len(fed)])
    /\ CallsAt(Len(fed)) = <<>>

(***************************************************************************)
(* C17: the range of the assembler position, as claimed.  MIDI_cmd_state   *)
(* is in 0..MIDI_MAX_CMD_LEN - 1 in every reachable state; a data byte     *)
(* increments it while it is below MIDI_MAX_CMD_LEN - 1 and otherwise      *)
(* resets it to 0.                                                         *)
(***************************************************************************)
C17_PositionBelowCapacity ==
    /\ MIDI_cmd_state \in 0..(MIDI_MAX_CMD_LEN - 1)
    /\ AfterPlainDataByte =>
           MIDI_cmd_state = IF PreviousState < MIDI_MAX_CMD_LEN - 1
                            THEN PreviousState + 1
                            ELSE 0

(***************************************************************************)
(* C17, amended: MIDI_cmd_state is in 0..MIDI_MAX_CMD_LEN in every         *)
(* reachable state; a data byte increments it while it is below            *)
(* MIDI_MAX_CMD_LEN, so that it reaches MIDI_MAX_CMD_LEN, one past the     *)
(* last slot of the staging area, and resets it to 0 from there.           *)
(***************************************************************************)
C17_PositionUpToCapacity ==
    /\ MIDI_cmd_state \in 0..MIDI_MAX_CMD_LEN
    /\ AfterPlainDataByte =>
           MIDI_cmd_state = IF PreviousState < MIDI_MAX_CMD_LEN
                            THEN PreviousState + 1
                            ELSE 0

\* a data byte found the position at MIDI_MAX_CMD_LEN and reset it to 0
C17_Witness ==
    /\ AfterPlainDataByte
    /\ PreviousState = MIDI_MAX_CMD_LEN
    /\ MIDI_cmd_state = 0

(***************************************************************************)
(* C18: slot 0 of the staging area.  Once a status byte has been fed,      *)
(* MIDI_cmd_stage[0] is the most recent status byte of the stream, a byte  *)
(* of 0x80 or more, and the other slots hold data bytes: no data byte is   *)
(* ever stored in slot 0.                                                  *)
(***************************************************************************)
C18_SlotZeroIsStatus ==
    /\ (\E k \in 1..Len(fed) : IsStatus(fed[k])) =>
           /\ IsStatus(MIDI_cmd_stage[0])
           /\ MIDI_cmd_stage[0] = LastStatus(Len(fed))
    /\ \A k \in 1..(MIDI_MAX_CMD_LEN - 1) : IsData(MIDI_cmd_stage[k])

(***************************************************************************)
(* Streams of a note-on status byte, of the status bytes whose commands    *)
(* complete without a callback (0xA0, 0xC0, 0xD0, 0xF1, 0xF2, 0xF3), and   *)
(* of a data byte.                                                         *)
(***************************************************************************)
OtherBytes == {144, 160, 192, 208, 241, 242, 243, 64}

InitOther == MIDI_init(MIDI_CHANNEL_ALL)

NextOther == Sender(OtherBytes, MaxOther) \/ IdleLine \/ MIDI_check

SpecOther == InitOther /\ [][NextOther]_vars

\* the status bytes of the commands that complete without a callback, by
\* the number of their data bytes
OneByteOther == {b \in Byte : b \div 16 \in {12, 13}} \union {241, 243}

TwoByteOther == {b \in Byte : b \div 16 = 10} \union {242}

\* the stream fed ends with a status byte of the set and n data bytes
EndsWith(statuses, n) ==
    /\ Len(fed) > n
    /\ fed[Len(fed) - n] \in statuses
    /\ AllData(Len(fed) - n + 1, Len(fed))

(***************************************************************************)
(* C19: the position after a completed command.  When the last byte fed    *)
(* completed a command that was dispatched to noteOn, noteOff, CC or       *)
(* pitchBend, the assembler position is 0; when it completed a command of  *)
(* another status (0xA, 0xC, 0xD, 0xF1, 0xF2, 0xF3), the position is left  *)
(* where the last data byte put it, at the number of data bytes.           *)
(***************************************************************************)
C19_PositionAfterCommand ==
    /\ (\E k \in 1..Len(calls) :
           calls[k].at = Len(fed) /\ calls[k].cb # "systemReset") =>
               MIDI_cmd_state = 0
    /\ EndsWith(OneByteOther, 1) => MIDI_cmd_state = 1
    /\ EndsWith(TwoByteOther, 2) => MIDI_cmd_state = 2

\* a polyphonic-pressure command 0xA0 with its two data bytes was fed:
\* nothing was invoked and the position is left at 2
C19_Witness ==
    /\ EndsWith({160}, 2)
    /\ MIDI_cmd_state = 2
    /\ calls = <<>>

(***************************************************************************)
(* Streams of note-on status bytes of two channels, of a status byte whose *)
(* command has one data byte, and of two data bytes, to a decoder that     *)
(* listens to channel 1: commands that are staged and not dispatched       *)
(* precede the ones that are.                                              *)
(***************************************************************************)
StaleBytes == {144, 145, 192, 64, 65}

InitStale == MIDI_init(1)

NextStale == PolledSender(StaleBytes, MaxStale) \/ PolledIdle \/ MIDI_check

SpecStale == InitStale /\ [][NextStale]_vars

\* the index in fed of the most recent status byte among the first i
\* bytes, 0 when there is none
LastStatusIndex(i) ==
    LET ks == {k \in 1..i : IsStatus(fed[k])}
    IN  IF ks = {} THEN 0 ELSE CHOOSE k \in ks : \A m \in ks : m <= k

(***************************************************************************)
(* C20: nothing stale is dispatched.  Whenever noteOn, noteOff, CC or      *)
(* pitchBend is invoked, the two bytes fed last are data bytes and are the *)
(* data values of the call, the status it was decoded with is the most     *)
(* recent status byte of the stream, an accepted byte of nibble 0x8, 0x9,  *)
(* 0xB or 0xE, and between that status byte and the two data bytes the     *)
(* stream holds an even number of data bytes and nothing else.             *)
(***************************************************************************)
C20_NothingStale ==
    \A k \in 1..Len(calls) :
        calls[k].cb # "systemReset" =>
            LET p == calls[k].at
                s == LastStatusIndex(p)
            IN  /\ s >= 1
                /\ p >= s + 2
                /\ IsVoice(fed[s]) /\ Accepted(fed[s])
                /\ AllData(s + 1, p)
                /\ (p - s - 2) % 2 = 0
                /\ Matches(calls[k], fed[s], fed[p - 1], fed[p])

\* a command of another channel or a one-data-byte command was staged
\* with the data byte 65, and a note-on of channel 1 was then dispatched
\* with the data byte 64
C20_Witness ==
    /\ Len(fed) = 6
    /\ fed[1] \in {145, 192}
    /\ fed[2] = 65
    /\ fed[3] = 144
    /\ Len(calls) = 1
    /\ calls[1].at = 5
    /\ calls[1].args = <<64, 64>>

====
